---- MODULE Spec2Model ----
(***************************************************************************)
(* Model of the crop-box core of pdfCropMargins:                           *)
(*   crop_utils.calculate_same_size_bounding_box                           *)
(*   crop_utils.combine_tuple_lists_with_mask                              *)
(*   crop_utils.handle_same_page_size_option                               *)
(*   page_configuration.PageConfiguration.validate_settings                *)
(*                                                                         *)
(* Python lists and tuples are sequences; Python index i is position i+1.  *)
(* A box is the sequence <<left, bottom, right, top>> of its edge values.  *)
(* A call either returns (status "ok") or ends in a Python exception       *)
(* (status "IndexError", "TypeError").                                     *)
(***************************************************************************)
EXTENDS Integers, Sequences, FiniteSets

VARIABLES
    args,                \* the args object: samePageSize, samePageSizeOrderStat,
                         \*   setSamePageSize, samePageSize4
    full_page_box_list,  \* argument: list of page boxes
    page_nums_to_crop,   \* argument: set of page numbers
    num_pages_to_crop,   \* argument of handle_same_page_size_option
    order_n,             \* argument of calculate_same_size_bounding_box /
                         \*   local of handle_same_page_size_option
    mask,                \* argument of combine_tuple_lists_with_mask
    default_list,        \* argument of combine_tuple_lists_with_mask
    optional_list,       \* argument of combine_tuple_lists_with_mask
    config,              \* the PageConfiguration object
    calls,               \* number of calls made so far
    result               \* outcome of the last call

vars == << args, full_page_box_list, page_nums_to_crop, num_pages_to_crop,
           order_n, mask, default_list, optional_list, config, calls, result >>

-----------------------------------------------------------------------------
(* Bounds of the model *)

\* longest box list
MaxPages == 3

\* calls of a crop_utils function made on the same objects
MaxCalls == 1

\* calls of validate_settings made on the same configuration
MaxValidations == 2

\* largest order-statistic count requested
MaxCount == 2

\* longest list held by a configuration field
MaxItems == 5

-----------------------------------------------------------------------------
(* Python values and outcomes *)

NoResult == [status |-> "none", value |-> << >>]

Returned(v) == [status |-> "ok", value |-> v]

Raised(exc) == [status |-> exc, value |-> << >>]

\* Python values a field can hold, tagged with their type
PyNone == [type |-> "NoneType"]

PyNum(n) == [type |-> "number", val |-> n]

\* a string of decimal digits, most significant first
PyStr(digits) == [type |-> "str", digits |-> digits]

PyList(s) == [type |-> "list", items |-> s]

PyTuple(s) == [type |-> "tuple", items |-> s]

Repeat(v, n) == [i \in 1..n |-> v]

\* list[i] is defined for -len <= i < len; anything else is an IndexError
InRange(list, i) == i >= -Len(list) /\ i < Len(list)

\* list[i], a negative i counting from the end
Item(list, i) == IF i >= 0 THEN list[i + 1] ELSE list[Len(list) + i + 1]

\* the elements of a set in some iteration order
RECURSIVE Iterate(_)
Iterate(S) ==
    IF S = {} THEN << >>
    ELSE LET x == CHOOSE y \in S : TRUE
         IN  << x >> \o Iterate(S \ {x})

\* v put at its place in the sorted sequence s
RECURSIVE InsertSorted(_, _, _)
InsertSorted(v, s, reverse) ==
    IF s = << >> THEN << v >>
    ELSE IF (IF reverse THEN v >= Head(s) ELSE v <= Head(s))
         THEN << v >> \o s
         ELSE << Head(s) >> \o InsertSorted(v, Tail(s), reverse)

\* sorted(s) and sorted(s, reverse=True)
RECURSIVE sorted(_, _)
sorted(s, reverse) ==
    IF s = << >> THEN << >>
    ELSE InsertSorted(Head(s), sorted(Tail(s), reverse), reverse)

-----------------------------------------------------------------------------
(* crop_utils.calculate_same_size_bounding_box *)

\* the generator (full_page_box_list[pg][edge] for pg in page_nums_to_crop)
EdgeValues(boxes, pages, edge) ==
    [k \in 1..Len(pages) |-> Item(boxes, pages[k])[edge]]

calculate_same_size_bounding_box_swapped(boxes, sel, n) ==
    IF \E pg \in sel : ~InRange(boxes, pg) THEN Raised("IndexError")
    ELSE LET pages == Iterate(sel)
             same_size_bounding_box ==
                 << sorted(EdgeValues(boxes, pages, 1), TRUE),
                    sorted(EdgeValues(boxes, pages, 2), TRUE),
                    sorted(EdgeValues(boxes, pages, 3), FALSE),
                    sorted(EdgeValues(boxes, pages, 4), FALSE) >>
         IN  IF ~InRange(same_size_bounding_box[1], n) THEN Raised("IndexError")
             ELSE Returned([e \in 1..4 |-> Item(same_size_bounding_box[e], n)])

calculate_same_size_bounding_box(boxes, sel, n) ==
    IF \E pg \in sel : ~InRange(boxes, pg) THEN Raised("IndexError")
    ELSE LET pages == Iterate(sel)
             same_size_bounding_box ==
                 << sorted(EdgeValues(boxes, pages, 1), FALSE),
                    sorted(EdgeValues(boxes, pages, 2), FALSE),
                    sorted(EdgeValues(boxes, pages, 3), TRUE),
                    sorted(EdgeValues(boxes, pages, 4), TRUE) >>
         IN  IF ~InRange(same_size_bounding_box[1], n) THEN Raised("IndexError")
             ELSE Returned([e \in 1..4 |-> Item(same_size_bounding_box[e], n)])

-----------------------------------------------------------------------------
(* crop_utils.combine_tuple_lists_with_mask *)

\* zip(default_list, optional_list) stops at the shorter list
ZipLen(a, b) == IF Len(a) <= Len(b) THEN Len(a) ELSE Len(b)

\* the inner loop: the default tuple with the masked positions overwritten
MaskedTuple_inverted(m, default_tuple, optional_tuple) ==
    [e \in 1..Len(default_tuple) |->
        IF e <= Len(m) /\ m[e] = "f" THEN optional_tuple[e] ELSE default_tuple[e]]

MaskedTuple(m, default_tuple, optional_tuple) ==
    [e \in 1..Len(default_tuple) |->
        IF e <= Len(m) /\ m[e] = "t" THEN optional_tuple[e] ELSE default_tuple[e]]

combine_tuple_lists_with_mask_first(m, dl, ol) ==
    [p \in 1..ZipLen(dl, ol) |-> MaskedTuple(m, dl[1], ol[1])]

combine_tuple_lists_with_mask(m, dl, ol) ==
    [p \in 1..ZipLen(dl, ol) |-> MaskedTuple(m, dl[p], ol[p])]

-----------------------------------------------------------------------------
(* crop_utils.handle_same_page_size_option *)
(* args.verbose only selects what is printed; printing changes no state and  *)
(* is left out.  A field of args that is None or empty is the empty sequence. *)

Min(a, b) == IF a <= b THEN a ELSE b

Max(a, b) == IF a >= b THEN a ELSE b

\* the number a string of decimal digits denotes
RECURSIVE DecimalValue(_)
DecimalValue(digits) ==
    IF digits = << >> THEN 0
    ELSE 10 * DecimalValue(SubSeq(digits, 1, Len(digits) - 1)) + digits[Len(digits)]

\* float(f): a number keeps its value, a string of digits is parsed
ToFloat(f) == IF f.type = "number" THEN f.val ELSE DecimalValue(f.digits)

\* the local order_n after the order-statistic block
OrderN_unclamped(a, n) ==
    IF a.samePageSizeOrderStat # << >>
    THEN Min(a.samePageSizeOrderStat[1], n - 1)
    ELSE 0

OrderN(a, n) ==
    IF a.samePageSizeOrderStat # << >>
    THEN Max(Min(a.samePageSizeOrderStat[1], n - 1), 0)
    ELSE 0

\* the args object after the order-statistic block
ArgsAfter(a) ==
    IF a.samePageSizeOrderStat # << >>
    THEN [a EXCEPT !.samePageSize = TRUE]
    ELSE a

\* the box every selected page is set to: computed, or the one passed in
SameSizeBoundingBox_fixed_first(a, boxes, sel, n) ==
    IF a.setSamePageSize = << >>
    THEN calculate_same_size_bounding_box(boxes, sel, n)
    ELSE Returned([e \in 1..Len(a.setSamePageSize) |-> ToFloat(a.setSamePageSize[e])])

SameSizeBoundingBox(a, boxes, sel, n) ==
    IF a.samePageSize
    THEN calculate_same_size_bounding_box(boxes, sel, n)
    ELSE Returned([e \in 1..Len(a.setSamePageSize) |-> ToFloat(a.setSamePageSize[e])])

\* the final loop: selected pages take the same-size entry, the others keep theirs
MergeSelected(boxes, sel, same_size_bounding_box_list) ==
    [p \in 1..Len(boxes) |->
        IF (p - 1) \notin sel THEN boxes[p] ELSE same_size_bounding_box_list[p]]

\* the value returned (or the exception raised) for the args object a as it
\* is at entry
handle_same_page_size_option(a, boxes, sel, n) ==
    LET a2 == ArgsAfter(a)
        on == OrderN(a, n)
    IN  IF ~(a2.samePageSize \/ a2.setSamePageSize # << >>)
        THEN Returned(boxes)
        ELSE LET bb == SameSizeBoundingBox(a2, boxes, sel, on)
             IN  IF bb.status # "ok" THEN bb
                 ELSE LET num_pages == Len(boxes)
                          broadcast == [p \in 1..num_pages |-> bb.value]
                          same_size_bounding_box_list ==
                              IF a2.samePageSize4 # << >>
                              THEN combine_tuple_lists_with_mask(
                                       a2.samePageSize4, boxes, broadcast)
                              ELSE broadcast
                      IN  Returned(MergeSelected(boxes, sel,
                                                 same_size_bounding_box_list))

-----------------------------------------------------------------------------
(* page_configuration.PageConfiguration *)

DEFAULT_DPI == 72

DEFAULT_PERCENT_RETAIN == 10

\* `x <= 0` is defined for numbers only
IsNumber(v) == v.type = "number"

\* not isinstance(v, list) or len(v) != 4
NotListOf4(v) == v.type # "list" \/ Len(v.items) # 4

\* _set_default_values
DefaultConfig ==
    [res_x |-> PyNum(DEFAULT_DPI), res_y |-> PyNum(DEFAULT_DPI),
     percent_retain |-> DEFAULT_PERCENT_RETAIN,
     percent_retain_4 |-> PyList(Repeat(DEFAULT_PERCENT_RETAIN, 4)),
     absolute_precrop_4 |-> PyList(Repeat(0, 4))]

WarnX == "Invalid X resolution, reset to 72"

WarnY == "Invalid Y resolution, reset to 72"

WarnPercentRetain == "Fixed percent_retain_4 to have 4 values"

WarnPreCrop == "Fixed absolute_precrop_4 to have 4 values"

\* one resolution check: the field after it and the warnings it adds
FixResolution(v, warning) ==
    IF v.val <= 0 THEN [field |-> PyNum(DEFAULT_DPI), warnings |-> << warning >>]
    ELSE [field |-> v, warnings |-> << >>]

\* validate_settings: the configuration it leaves and its outcome.  A
\* comparison of a non-number with 0 raises TypeError; the assignments made
\* before it stay.
validate_settings(c) ==
    IF ~IsNumber(c.res_x) THEN [config |-> c, result |-> Raised("TypeError")]
    ELSE
    LET fx == FixResolution(c.res_x, WarnX)
        c1 == [c EXCEPT !.res_x = fx.field]
    IN
    IF ~IsNumber(c.res_y) THEN [config |-> c1, result |-> Raised("TypeError")]
    ELSE
    LET fy == FixResolution(c.res_y, WarnY)
        c2 == [c1 EXCEPT !.res_y = fy.field]
        bad_pr == NotListOf4(c2.percent_retain_4)
        c3 == IF bad_pr
              THEN [c2 EXCEPT !.percent_retain_4 = PyList(Repeat(c2.percent_retain, 4))]
              ELSE c2
        bad_ap == NotListOf4(c3.absolute_precrop_4)
        c4 == IF bad_ap
              THEN [c3 EXCEPT !.absolute_precrop_4 = PyList(Repeat(0, 4))]
              ELSE c3
        warnings == fx.warnings \o fy.warnings
                    \o (IF bad_pr THEN << WarnPercentRetain >> ELSE << >>)
                    \o (IF bad_ap THEN << WarnPreCrop >> ELSE << >>)
    IN  [config |-> c4, result |-> Returned(warnings)]

-----------------------------------------------------------------------------
(* Inputs *)

BoxLists(pool, n) == UNION { [1..k -> pool] : k \in 0..n }

BBoxPool ==
    { << 0, 0, 100, 100 >>, << 10, 10, 110, 110 >>, << 5, 5, 105, 105 >>,
      << 7, 2, 120, 90 >> }

TuplePool == { << 1, 2, 3, 4 >>, << 10, 20, 30, 40 >> }

Masks == [1..4 -> {"t", "f"}]

\* masks given as samePageSize4: every edge taken and kept at least once
PageMasks ==
    { << "t", "t", "t", "t" >>, << "f", "f", "f", "f" >>,
      << "t", "f", "t", "f" >>, << "f", "t", "f", "t" >> }

PagePool == { << 0, 0, 100, 100 >>, << 7, 2, 120, 90 >> }

\* the box 20 20 80 80 passed in as numbers and as strings
FixedBoxes ==
    { << PyNum(20), PyNum(20), PyNum(80), PyNum(80) >>,
      << PyStr(<< 2, 0 >>), PyStr(<< 2, 0 >>), PyStr(<< 8, 0 >>), PyStr(<< 8, 0 >>) >> }

ArgsSet ==
    [samePageSize : BOOLEAN,
     samePageSizeOrderStat : {<< >>} \cup { << k >> : k \in -1..MaxCount },
     setSamePageSize : {<< >>} \cup FixedBoxes,
     samePageSize4 : {<< >>} \cup PageMasks]

Resolutions == { PyNone, PyNum(-5), PyNum(0), PyNum(DEFAULT_DPI), PyNum(150) }

Quadruples(values) ==
    { PyNone } \cup { PyTuple(Repeat(v, 4)) : v \in values }
    \cup { PyList(Repeat(v, k)) : v \in values, k \in 0..MaxItems }

ConfigSet ==
    [res_x : Resolutions, res_y : Resolutions,
     percent_retain : { DEFAULT_PERCENT_RETAIN, 25 },
     percent_retain_4 : Quadruples({ DEFAULT_PERCENT_RETAIN, 25 }),
     absolute_precrop_4 : Quadruples({ 0, 5 })]

\* num_pages_to_crop: the size of the selection, or one off
PageCounts(sel) ==
    { n \in (Cardinality(sel) - 1)..(Cardinality(sel) + 1) : n >= 0 }

IdleArgs ==
    [samePageSize |-> FALSE, samePageSizeOrderStat |-> << >>,
     setSamePageSize |-> << >>, samePageSize4 |-> << >>]

\* nothing called yet
Fresh == calls = 0 /\ result = NoResult

NoBBoxInput ==
    full_page_box_list = << >> /\ page_nums_to_crop = {} /\ order_n = 0

NoCombineInput == mask = << >> /\ default_list = << >> /\ optional_list = << >>

NoHandleInput == args = IdleArgs /\ num_pages_to_crop = 0

-----------------------------------------------------------------------------
(* Calls of calculate_same_size_bounding_box, on any arguments *)

InitBBox ==
    /\ full_page_box_list \in BoxLists(BBoxPool, MaxPages)
    /\ page_nums_to_crop \in SUBSET (-1..MaxPages)
    /\ order_n \in -1..MaxPages
    /\ NoHandleInput /\ NoCombineInput /\ config = DefaultConfig /\ Fresh

BoundingBoxCall ==
    /\ calls < MaxCalls
    /\ result' = calculate_same_size_bounding_box(
                     full_page_box_list, page_nums_to_crop, order_n)
    /\ calls' = calls + 1
    /\ UNCHANGED << args, full_page_box_list, page_nums_to_crop,
                    num_pages_to_crop, order_n, mask, default_list,
                    optional_list, config >>

NextBBox == BoundingBoxCall

SpecBBox == InitBBox /\ [][NextBBox]_vars

-----------------------------------------------------------------------------
(* Calls of combine_tuple_lists_with_mask *)

InitCombine ==
    /\ mask \in Masks
    /\ default_list \in BoxLists(TuplePool, MaxPages)
    /\ optional_list \in BoxLists(TuplePool, MaxPages)
    /\ NoHandleInput /\ NoBBoxInput /\ config = DefaultConfig /\ Fresh

CombineCall ==
    /\ calls < MaxCalls
    /\ result' = Returned(combine_tuple_lists_with_mask(
                              mask, default_list, optional_list))
    /\ calls' = calls + 1
    /\ UNCHANGED << args, full_page_box_list, page_nums_to_crop,
                    num_pages_to_crop, order_n, mask, default_list,
                    optional_list, config >>

NextCombine == CombineCall

SpecCombine == InitCombine /\ [][NextCombine]_vars

-----------------------------------------------------------------------------
(* Calls of handle_same_page_size_option on an args object *)

InitHandle ==
    /\ args \in ArgsSet
    /\ full_page_box_list \in BoxLists(PagePool, MaxPages)
    /\ page_nums_to_crop \in SUBSET (0..Len(full_page_box_list) - 1)
    /\ num_pages_to_crop \in PageCounts(page_nums_to_crop)
    /\ order_n = 0
    /\ NoCombineInput /\ config = DefaultConfig /\ Fresh

HandleCall ==
    /\ calls < MaxCalls
    /\ args' = ArgsAfter(args)
    /\ order_n' = OrderN(args, num_pages_to_crop)
    /\ result' = handle_same_page_size_option(
                     args, full_page_box_list, page_nums_to_crop,
                     num_pages_to_crop)
    /\ calls' = calls + 1
    /\ UNCHANGED << full_page_box_list, page_nums_to_crop, num_pages_to_crop,
                    mask, default_list, optional_list, config >>

NextHandle == HandleCall

SpecHandle == InitHandle /\ [][NextHandle]_vars

-----------------------------------------------------------------------------
(* Calls of validate_settings on a PageConfiguration *)

InitConfig ==
    /\ config \in ConfigSet
    /\ NoHandleInput /\ NoBBoxInput /\ NoCombineInput /\ Fresh

ValidateCall ==
    /\ calls < MaxValidations
    /\ config' = validate_settings(config).config
    /\ result' = validate_settings(config).result
    /\ calls' = calls + 1
    /\ UNCHANGED << args, full_page_box_list, page_nums_to_crop,
                    num_pages_to_crop, order_n, mask, default_list,
                    optional_list >>

NextConfig == ValidateCall

SpecConfig == InitConfig /\ [][NextConfig]_vars

-----------------------------------------------------------------------------
(* Properties of calculate_same_size_bounding_box (SpecBBox) *)

Called == calls >= 1

\* edge e of the box of page pg
EdgeOf(pg, e) == full_page_box_list[pg + 1][e]

\* v is the (n+1)-th smallest value of edge e over the selected pages
IsNthSmallest(v, e, n) ==
    /\ \E pg \in page_nums_to_crop : EdgeOf(pg, e) = v
    /\ Cardinality({ pg \in page_nums_to_crop : EdgeOf(pg, e) < v }) <= n
    /\ Cardinality({ pg \in page_nums_to_crop : EdgeOf(pg, e) <= v }) > n

\* v is the (n+1)-th largest value of edge e over the selected pages
IsNthLargest(v, e, n) ==
    /\ \E pg \in page_nums_to_crop : EdgeOf(pg, e) = v
    /\ Cardinality({ pg \in page_nums_to_crop : EdgeOf(pg, e) > v }) <= n
    /\ Cardinality({ pg \in page_nums_to_crop : EdgeOf(pg, e) >= v }) > n

IsOrderStatBox(box, n) ==
    /\ Len(box) = 4
    /\ IsNthSmallest(box[1], 1, n) /\ IsNthSmallest(box[2], 2, n)
    /\ IsNthLargest(box[3], 3, n) /\ IsNthLargest(box[4], 4, n)

\* the box is (min left, min bottom, max right, max top) of the selection
IsCoveringBox(box) ==
    \A pg \in page_nums_to_crop :
        /\ box[1] <= EdgeOf(pg, 1) /\ box[2] <= EdgeOf(pg, 2)
        /\ box[3] >= EdgeOf(pg, 3) /\ box[4] >= EdgeOf(pg, 4)

ValidBBoxInput ==
    /\ page_nums_to_crop # {}
    /\ page_nums_to_crop \subseteq 0..(Len(full_page_box_list) - 1)
    /\ order_n \in 0..(Cardinality(page_nums_to_crop) - 1)

ExampleBoxes ==
    << << 0, 0, 100, 100 >>, << 10, 10, 110, 110 >>, << 5, 5, 105, 105 >> >>

ExampleInput == full_page_box_list = ExampleBoxes /\ page_nums_to_crop = {0, 1, 2}

\* C1: on a non-empty selection of valid pages and 0 <= order_n <
\* len(selection), calculate_same_size_bounding_box returns the box of the
\* (order_n+1)-th smallest left and bottom and the (order_n+1)-th largest
\* right and top of the selected pages; with order_n = 0 that is (min left,
\* min bottom, max right, max top); the example boxes give [0,0,110,110] for
\* order_n = 0 and [5,5,105,105] for order_n = 1.
C1_OrderStatisticBox ==
    (Called /\ ValidBBoxInput) =>
        /\ result.status = "ok"
        /\ IsOrderStatBox(result.value, order_n)
        /\ order_n = 0 => IsCoveringBox(result.value)
        /\ (ExampleInput /\ order_n = 0) => result.value = << 0, 0, 110, 110 >>
        /\ (ExampleInput /\ order_n = 1) => result.value = << 5, 5, 105, 105 >>

C1_Witness ==
    /\ Called /\ ExampleInput /\ order_n = 1
    /\ result = Returned(<< 5, 5, 105, 105 >>)

ContractViolated ==
    \/ page_nums_to_crop = {}
    \/ order_n \notin 0..(Cardinality(page_nums_to_crop) - 1)
    \/ \E pg \in page_nums_to_crop : pg \notin 0..(Len(full_page_box_list) - 1)

\* C8: calculate_same_size_bounding_box ends in an error and returns no box
\* whenever the selection is empty, order_n is outside [0, len(selection)-1]
\* or the selection holds a page index outside [0, len(boxes)).
C8_ContractViolationRaises ==
    (Called /\ ContractViolated) => result.status # "ok"

-----------------------------------------------------------------------------
(* Properties of combine_tuple_lists_with_mask (SpecCombine) *)

\* C2: for a 4-character mask and equal-length lists the result has the same
\* length and edge e of page p is the override's where the mask has 't' and
\* the default's otherwise; "ffff" gives the default list, "tttt" the
\* override list.
C2_MaskedCombination ==
    (Called /\ Len(default_list) = Len(optional_list)) =>
        /\ result.status = "ok"
        /\ Len(result.value) = Len(default_list)
        /\ \A p \in 1..Len(default_list) :
               /\ Len(result.value[p]) = 4
               /\ \A e \in 1..4 :
                      result.value[p][e] =
                          IF mask[e] = "t" THEN optional_list[p][e]
                          ELSE default_list[p][e]
        /\ mask = << "f", "f", "f", "f" >> => result.value = default_list
        /\ mask = << "t", "t", "t", "t" >> => result.value = optional_list

C2_Witness ==
    /\ Called /\ mask = << "t", "f", "t", "f" >>
    /\ default_list = << << 1, 2, 3, 4 >>, << 10, 20, 30, 40 >> >>
    /\ optional_list = << << 10, 20, 30, 40 >>, << 1, 2, 3, 4 >> >>
    /\ result = Returned(<< << 10, 2, 30, 4 >>, << 1, 20, 3, 40 >> >>)

ScenarioInput ==
    /\ mask = << "t", "f", "f", "t" >>
    /\ default_list = << << 1, 2, 3, 4 >> >>
    /\ optional_list = << << 10, 20, 30, 40 >> >>

\* C3 as stated: mask "tfft", default [(1,2,3,4)] and override
\* [(10,20,30,40)] give [(10,2,30,40)].
C3_ScenarioAsStated ==
    (Called /\ ScenarioInput) => result = Returned(<< << 10, 2, 30, 40 >> >>)

\* C3 amended: mask "tfft", default [(1,2,3,4)] and override [(10,20,30,40)]
\* give [(10,2,3,40)]: the third edge has mask 'f' and keeps the default 3.
C3_Scenario ==
    (Called /\ ScenarioInput) => result = Returned(<< << 10, 2, 3, 40 >> >>)

C3_Witness == Called /\ ScenarioInput /\ result.status = "ok"

\* C7: with lists of different lengths combine_tuple_lists_with_mask fails
\* with a length-mismatch error and never returns a truncated list.
C7_LengthMismatchRaises ==
    (Called /\ Len(default_list) # Len(optional_list)) => result.status # "ok"

-----------------------------------------------------------------------------
(* Properties of handle_same_page_size_option (SpecHandle) *)

\* 'same size' asked for, by the flag or by an order-statistic count
SameSizeRequested(a) == a.samePageSize \/ a.samePageSizeOrderStat # << >>

FixedSizeRequested(a) == a.setSamePageSize # << >>

\* the numbers every box of FixedBoxes denotes
FixedBoxValue == << 20, 20, 80, 80 >>

\* v is edge e of the uniform box U for the args object a and order_n n
IsUniformEdge(v, e, a, n) ==
    IF SameSizeRequested(a)
    THEN IF e <= 2 THEN IsNthSmallest(v, e, n) ELSE IsNthLargest(v, e, n)
    ELSE v = FixedBoxValue[e]

\* the list returned: same length and order, pages outside the selection
\* unchanged, pages inside it set to U, or to U on the masked edges only
IsSamePageSizeList(list, a, n) ==
    /\ Len(list) = Len(full_page_box_list)
    /\ \A p \in 1..Len(list) :
           IF (p - 1) \notin page_nums_to_crop
           THEN list[p] = full_page_box_list[p]
           ELSE /\ Len(list[p]) = 4
                /\ \A e \in 1..4 :
                       IF a.samePageSize4 # << >> /\ a.samePageSize4[e] # "t"
                       THEN list[p][e] = full_page_box_list[p][e]
                       ELSE IsUniformEdge(list[p][e], e, a, n)

\* C4 as stated: for every configuration, box list and selection of valid
\* indices the call returns the input list when nothing is requested, and
\* otherwise the list with the selected pages set to the (masked) uniform box.
C4_SamePageSizeAsStated ==
    [][HandleCall =>
          IF ~SameSizeRequested(args) /\ ~FixedSizeRequested(args)
          THEN result' = Returned(full_page_box_list)
          ELSE /\ result'.status = "ok"
               /\ IsSamePageSizeList(result'.value, args, order_n')]_vars

\* C4 amended: the call returns the input list when nothing is requested;
\* when 'same size' is requested and the order_n passed on is not below
\* len(selection) (an empty selection included) it ends in an IndexError;
\* otherwise it returns the list with the selected pages set to the (masked)
\* uniform box, U being the bounding box over the selection whenever 'same
\* size' is requested and the fixed box only when it is not.
C4_SamePageSize ==
    [][HandleCall =>
          IF ~SameSizeRequested(args) /\ ~FixedSizeRequested(args)
          THEN result' = Returned(full_page_box_list)
          ELSE IF SameSizeRequested(args)
                  /\ order_n' >= Cardinality(page_nums_to_crop)
          THEN result' = Raised("IndexError")
          ELSE /\ result'.status = "ok"
               /\ IsSamePageSizeList(result'.value, args, order_n')]_vars

\* same size and a fixed box both requested, with a mask, on three pages of
\* which the middle one is not selected
C4_Witness ==
    /\ Called /\ result.status = "ok"
    /\ args.samePageSize /\ FixedSizeRequested(args)
    /\ args.samePageSize4 = << "t", "f", "t", "f" >>
    /\ full_page_box_list =
           << << 0, 0, 100, 100 >>, << 7, 2, 120, 90 >>, << 7, 2, 120, 90 >> >>
    /\ page_nums_to_crop = {0, 2}
    /\ result.value =
           << << 0, 0, 120, 100 >>, << 7, 2, 120, 90 >>, << 0, 2, 120, 90 >> >>

CountRequested(a) == a.samePageSizeOrderStat # << >>

\* C9 as stated: with a count requested 'same size' is turned on and, for
\* every count, selection and num_pages_to_crop, the order_n passed on is in
\* [0, num_pages_to_crop - 1] and below len(selection), so the bounding-box
\* call never indexes outside the sorted edge values.
C9_ClampAsStated ==
    [][(HandleCall /\ CountRequested(args)) =>
          /\ args'.samePageSize
          /\ 0 <= order_n' /\ order_n' <= num_pages_to_crop - 1
          /\ order_n' < Cardinality(page_nums_to_crop)
          /\ result'.status # "IndexError"]_vars

\* C9 amended: with a count requested 'same size' is turned on and the
\* order_n passed on is max(0, min(count, num_pages_to_crop - 1)): never
\* negative, at most num_pages_to_crop - 1 when num_pages_to_crop >= 1, and,
\* when the selection is non-empty and num_pages_to_crop <= len(selection),
\* below len(selection), the bounding-box call then staying inside the sorted
\* edge values.
C9_Clamp ==
    [][(HandleCall /\ CountRequested(args)) =>
          /\ args'.samePageSize
          /\ 0 <= order_n'
          /\ num_pages_to_crop >= 1 => order_n' <= num_pages_to_crop - 1
          /\ (/\ page_nums_to_crop # {}
              /\ num_pages_to_crop <= Cardinality(page_nums_to_crop)) =>
                 /\ order_n' < Cardinality(page_nums_to_crop)
                 /\ result'.status = "ok"]_vars

\* a count above the number of selected pages, clamped to the last index
C9_Witness ==
    /\ Called /\ args.samePageSizeOrderStat = << 2 >> /\ args.samePageSize
    /\ Cardinality(page_nums_to_crop) = 2 /\ num_pages_to_crop = 2
    /\ order_n = 1 /\ result.status = "ok"

\* C10: handle_same_page_size_option changes none of its inputs: the box
\* list, the selection and every field of the args object are after the call
\* what they were before it.
C10_InputsUnchanged ==
    [][HandleCall =>
          /\ args' = args
          /\ full_page_box_list' = full_page_box_list
          /\ page_nums_to_crop' = page_nums_to_crop]_vars

-----------------------------------------------------------------------------
(* Properties of PageConfiguration.validate_settings (SpecConfig) *)

Positive(v) == v.type = "number" /\ v.val > 0

IsListOf4(v) == v.type = "list" /\ Len(v.items) = 4

\* how many times warning w occurs in the list ws
Occurrences(w, ws) == Cardinality({ i \in 1..Len(ws) : ws[i] = w })

\* the field was invalid: reset to its default with exactly one warning;
\* the field was valid: left as it was with no warning
Repaired(valid, before, after, default, w, ws) ==
    IF valid THEN after = before /\ Occurrences(w, ws) = 0
    ELSE after = default /\ Occurrences(w, ws) = 1

ValidFields(c) ==
    { f \in {"res_x", "res_y", "percent_retain_4", "absolute_precrop_4"} :
        IF f \in {"res_x", "res_y"} THEN Positive(c[f]) ELSE IsListOf4(c[f]) }

\* C5: validate_settings never fails, whatever the fields hold: it returns a
\* list of warnings, leaves res_x > 0, res_y > 0 and both quadruples 4-element
\* lists, resets every invalid field to its default with exactly one warning
\* for it and leaves every valid field alone with no warning; res_x = -5 on
\* an otherwise valid configuration gives res_x = 72 and the one warning that
\* names the X resolution.
C5_ValidateNeverFails ==
    [][ValidateCall =>
          /\ result'.status = "ok"
          /\ Positive(config'.res_x) /\ Positive(config'.res_y)
          /\ IsListOf4(config'.percent_retain_4)
          /\ IsListOf4(config'.absolute_precrop_4)
          /\ config'.percent_retain = config.percent_retain
          /\ Repaired(Positive(config.res_x), config.res_x, config'.res_x,
                      PyNum(DEFAULT_DPI), WarnX, result'.value)
          /\ Repaired(Positive(config.res_y), config.res_y, config'.res_y,
                      PyNum(DEFAULT_DPI), WarnY, result'.value)
          /\ Repaired(IsListOf4(config.percent_retain_4),
                      config.percent_retain_4, config'.percent_retain_4,
                      PyList(Repeat(config.percent_retain, 4)),
                      WarnPercentRetain, result'.value)
          /\ Repaired(IsListOf4(config.absolute_precrop_4),
                      config.absolute_precrop_4, config'.absolute_precrop_4,
                      PyList(Repeat(0, 4)), WarnPreCrop, result'.value)
          /\ Len(result'.value) = 4 - Cardinality(ValidFields(config))
          /\ (/\ config.res_x = PyNum(-5)
              /\ ValidFields(config) =
                     {"res_y", "percent_retain_4", "absolute_precrop_4"}) =>
                 /\ config'.res_x = PyNum(72)
                 /\ result'.value = << WarnX >>]_vars

\* C6: validate_settings is idempotent: a second call made directly after a
\* first call returns zero warnings and leaves every field as the first call
\* left it.
C6_ValidateIdempotent ==
    [][(ValidateCall /\ Called) =>
          /\ result' = Returned(<< >>)
          /\ config' = config]_vars

====
